---- MODULE Spec2Model ----
(***************************************************************************)
(* Model of the microblog HTTP service (src/src/main.rs).                   *)
(*                                                                         *)
(* One task per accepted connection serves requests one at a time.  Each   *)
(* .await of the handlers is a suspension point, so a handler is split at  *)
(* its awaits: routing, reading the body, executing the store statement,   *)
(* and building the response are separate steps that interleave with the   *)
(* steps of the other connections.  The store is the SQLite table          *)
(* posts(id, title, content); a statement is atomic.                       *)
(*                                                                         *)
(* A Uuid is 128 bits printed as 32 hexadecimal digits in five groups; the *)
(* model keeps the formatting and parsing and narrows the value to two     *)
(* hexadecimal digits in two groups.                                       *)
(***************************************************************************)
EXTENDS Integers, Sequences, FiniteSets, TLC

\* ------------------------------------------------------------------ bounds

\* Connections accepted by the listener, each served by its own task.
NumConns == 2

\* Requests received over all connections.
MaxRequests == 2

\* Uuid::new_v4 draws from 0..MaxUuid.
MaxUuid == 1

Conns == 1..NumConns

\* ------------------------------------------------------------- Uuid text

HexLower == <<"0","1","2","3","4","5","6","7","8","9","a","b","c","d","e","f">>

HexUpper == <<"0","1","2","3","4","5","6","7","8","9","A","B","C","D","E","F">>

IsHex(ch) == \E i \in 1..16 : HexLower[i] = ch \/ HexUpper[i] = ch

HexVal(ch) == (CHOOSE i \in 1..16 : HexLower[i] = ch \/ HexUpper[i] = ch) - 1

\* post.id.to_string(): lower-case digits, groups joined by a hyphen.
to_string(u) == <<HexLower[(u \div 16) + 1], "-", HexLower[(u % 16) + 1]>>

\* Uuid::parse_str: accepts the hyphenated and the simple form, digits of
\* either case; anything else is an error.
parse_str(s) ==
    IF Len(s) = 3 /\ s[2] = "-" /\ IsHex(s[1]) /\ IsHex(s[3])
    THEN [ok |-> TRUE, v |-> HexVal(s[1]) * 16 + HexVal(s[3])]
    ELSE IF Len(s) = 2 /\ IsHex(s[1]) /\ IsHex(s[2])
    THEN [ok |-> TRUE, v |-> HexVal(s[1]) * 16 + HexVal(s[2])]
    ELSE [ok |-> FALSE, v |-> 0]

\* The values Uuid::new_v4 can return given the identifiers already in use.
\* A v4 identifier has 122 random bits; a repeated draw is not modelled.
new_v4_mut(used) == {0}

new_v4(used) == (0..MaxUuid) \ used

\* ------------------------------------------------------------ JSON values

JNull == [t |-> "null"]

JNum == [t |-> "number"]

JStr(s) == [t |-> "string", s |-> s]

JObj(f) == [t |-> "object", fields |-> f]

\* serde_json's value[key]: Null for a missing key and for a non-object.
Index(v, key) ==
    IF v.t = "object" /\ key \in DOMAIN v.fields THEN v.fields[key] ELSE JNull

\* Value::as_str: Some for a JSON string, None otherwise.
as_str(v) ==
    IF v.t = "string" THEN [some |-> TRUE, v |-> v.s] ELSE [some |-> FALSE, v |-> ""]

unwrap_or(o, d) == IF o.some THEN o.v ELSE d

is_empty_mut(s) == FALSE

is_empty(s) == s = ""

\* Request bodies, as sent on the wire.
BodyEmpty == ""

BodyNotJson == "not json"

BodyEmptyTitle == "{\"title\":\"\",\"content\":\"x\"}"

BodyNoContent == "{\"title\":\"Hello\"}"

BodyNumContent == "{\"title\":\"Hello\",\"content\":7}"

BodyHello == "{\"title\":\"Hello\",\"content\":\"World\"}"

BodyTest == "{\"title\":\"Test Post\",\"content\":\"This is a test post.\"}"

Bodies ==
    {BodyNotJson, BodyEmptyTitle, BodyNoContent, BodyNumContent, BodyHello, BodyTest}

\* serde_json::from_slice on the bodies above.
from_slice(bytes) ==
    CASE bytes = BodyEmptyTitle ->
            [ok |-> TRUE, v |-> JObj([k \in {"title", "content"} |->
                                        IF k = "title" THEN JStr("") ELSE JStr("x")])]
      [] bytes = BodyNoContent ->
            [ok |-> TRUE, v |-> JObj([k \in {"title"} |-> JStr("Hello")])]
      [] bytes = BodyNumContent ->
            [ok |-> TRUE, v |-> JObj([k \in {"title", "content"} |->
                                        IF k = "title" THEN JStr("Hello") ELSE JNum])]
      [] bytes = BodyHello ->
            [ok |-> TRUE, v |-> JObj([k \in {"title", "content"} |->
                                        IF k = "title" THEN JStr("Hello") ELSE JStr("World")])]
      [] bytes = BodyTest ->
            [ok |-> TRUE, v |-> JObj([k \in {"title", "content"} |->
                                        IF k = "title" THEN JStr("Test Post")
                                        ELSE JStr("This is a test post.")])]
      [] OTHER -> [ok |-> FALSE, v |-> JNull]

\* --------------------------------------------------------------- requests

\* A request as the router sees it: req.method(), req.uri().path(), and the
\* body still unread.
Request(m, p, b) == [method |-> m, path |-> p, body |-> b]

Requests ==
    {Request("POST", "/posts", b) : b \in Bodies}
    \cup {Request("GET", "/posts", BodyEmpty)}
    \cup {Request("DELETE", "/posts", BodyHello), Request("POST", "/posts/new", BodyNotJson)}

NoRequest == Request("", "", "")

\* -------------------------------------------------------------- responses

\* error_response(status, message)
error_response(status, message) ==
    [status |-> status, kind |-> "text", text |-> message, posts |-> <<>>]

\* Serialize for Post: the id is written in its text form.
ToJson(post) == [id |-> to_string(post.id), title |-> post.title, content |-> post.content]

\* json_response(data): data is [ok, kind, posts, err].  serde_json::to_string
\* of a Post or of a Vec<Post> does not fail, so the inner Err arm is not taken.
json_response(data) ==
    IF data.ok
    THEN [status |-> 200, kind |-> data.kind, text |-> "",
          posts |-> [i \in 1..Len(data.posts) |-> ToJson(data.posts[i])]]
    ELSE error_response(500, "Failed to read request body")

Ok(kind, posts) == [ok |-> TRUE, kind |-> kind, posts |-> posts, err |-> ""]

Err(msg) == [ok |-> FALSE, kind |-> "text", posts |-> <<>>, err |-> msg]

\* ------------------------------------------------------------------ store

Some(x) == [some |-> TRUE, v |-> x]

Null == [some |-> FALSE, v |-> <<>>]

\* The row written by the INSERT of Microblog::create_post.
RowOf(post) == [id |-> Some(to_string(post.id)), title |-> post.title, content |-> post.content]

NewPost_mut(id, title, content) == [id |-> id, title |-> content, content |-> title]

\* Post { id, title, content }
NewPost(id, title, content) == [id |-> id, title |-> title, content |-> content]

NoPost == NewPost(0, "", "")

\* The closure of get_posts applied to one row: the parsed id, or the failure
\* of parse_str that expect() turns into a panic.
RowId(row) == parse_str(unwrap_or(row.id, <<>>))

RowToPost_mut(row) == [id |-> RowId(row).v, title |-> row.title, content |-> ""]

RowToPost(row) == [id |-> RowId(row).v, title |-> row.title, content |-> row.content]

\* Contents the database file can have when the service starts: the table is
\* not created by the service and outlives it.
ExistingStores ==
    { <<>>,
      << [id |-> Some(<<"A", "-", "F">>), title |-> "Old", content |-> "Kept"] >>,
      << [id |-> Null, title |-> "Old", content |-> "Kept"] >>,
      << [id |-> Some(<<"x", "-", "y">>), title |-> "Old", content |-> "Kept"] >> }

\* ------------------------------------------------------------------ state

VARIABLES
    store,      \* rows of the posts table, in insertion order
    pc,         \* where each connection's task stands
    cur,        \* the request each connection's task is handling, with its locals
    sent,       \* the response written last, with the connection and request it answers
    createLog,  \* the bodies of the 200 responses of create-post, in order
    issued,     \* identifiers drawn by Uuid::new_v4 so far
    nreq        \* requests received so far

vars == <<store, pc, cur, sent, createLog, issued, nreq>>

\* Locals of a request being handled: the Result of reading its body
\* ("none" while it was not read), the pending
\* Post, the Result of its store statement ("none" while none was issued),
\* the fetched rows, and how many create-post calls had been answered 200
\* when it arrived.
Handling(r) ==
    [req |-> r, read |-> "none", post |-> NoPost, db |-> "none",
     rows |-> <<>>, createdBefore |-> Len(createLog)]

NoHandling ==
    [req |-> NoRequest, read |-> "none", post |-> NoPost, db |-> "none",
     rows |-> <<>>, createdBefore |-> 0]

\* A response as the client sees it, with the request it answers.
Written(c, h, r) ==
    [conn |-> c, req |-> h.req, read |-> h.read, db |-> h.db,
     createdBefore |-> h.createdBefore,
     status |-> r.status, kind |-> r.kind, text |-> r.text, posts |-> r.posts]

NoResponse == Written(0, NoHandling, [status |-> 0, kind |-> "none", text |-> "", posts |-> <<>>])

\* Identifiers held by the rows of the table.
StoredIds == {RowId(store[i]).v : i \in {j \in 1..Len(store) : RowId(store[j]).ok}}

InitCommon ==
    /\ pc = [c \in Conns |-> "idle"]
    /\ cur = [c \in Conns |-> NoHandling]
    /\ sent = NoResponse
    /\ createLog = <<>>
    /\ issued = {}
    /\ nreq = 0

\* A database file with whatever rows it held before the service started.
Init == store \in ExistingStores /\ InitCommon

\* A database whose table is empty.
InitEmpty == store = <<>> /\ InitCommon

\* ---------------------------------------------------------------- actions

\* The match of router on (method, path).
RouteOf_mut(r) ==
    IF r.path = "/posts" /\ r.method # "GET" THEN "create_post"
    ELSE IF r.path = "/posts" THEN "get_posts"
    ELSE "not_found"

RouteOf(r) ==
    IF r.method = "POST" /\ r.path = "/posts" THEN "create_post"
    ELSE IF r.method = "GET" /\ r.path = "/posts" THEN "get_posts"
    ELSE "not_found"

\* router: dispatch; anything but the two routes is answered at once, the
\* body unread.
Route(c, r) ==
    /\ pc[c] = "idle"
    /\ nreq < MaxRequests
    /\ nreq' = nreq + 1
    /\ IF RouteOf(r) = "create_post"
       THEN /\ pc' = [pc EXCEPT ![c] = "collect"]
            /\ cur' = [cur EXCEPT ![c] = Handling(r)]
            /\ UNCHANGED sent
       ELSE IF RouteOf(r) = "get_posts"
       THEN /\ pc' = [pc EXCEPT ![c] = "select"]
            /\ cur' = [cur EXCEPT ![c] = Handling(r)]
            /\ UNCHANGED sent
       ELSE /\ sent' = Written(c, Handling(r), error_response(404, "Not Found"))
            /\ UNCHANGED <<pc, cur>>
    /\ UNCHANGED <<store, createLog, issued>>

\* create_post up to the await of the INSERT: read the body, parse it, take
\* title and content, validate, and build the Post (Microblog::create_post
\* up to execute()).
CreatePost(c, readOk, id) ==
    /\ pc[c] = "collect"
    /\ LET h == [cur[c] EXCEPT !.read = IF readOk THEN "ok" ELSE "err"]
           parsed == from_slice(h.req.body)
           title == unwrap_or(as_str(Index(parsed.v, "title")), "")
           content == unwrap_or(as_str(Index(parsed.v, "content")), "")
           Reply(r) == /\ sent' = Written(c, h, r)
                       /\ pc' = [pc EXCEPT ![c] = "idle"]
                       /\ cur' = [cur EXCEPT ![c] = NoHandling]
                       /\ UNCHANGED issued
       IN  IF ~readOk
           THEN Reply(error_response(500, "Failed to read request body"))
           ELSE IF ~parsed.ok
           THEN Reply(error_response(500, "Failed to read request body"))
           ELSE IF is_empty(title) \/ is_empty(content)
           THEN Reply(error_response(400, "Title and content cannot be empty"))
           ELSE /\ id \in new_v4(issued \cup StoredIds)
                /\ issued' = issued \cup {id}
                /\ cur' = [cur EXCEPT ![c] = [h EXCEPT !.post = NewPost(id, title, content)]]
                /\ pc' = [pc EXCEPT ![c] = "insert"]
                /\ UNCHANGED sent
    /\ UNCHANGED <<store, createLog, nreq>>

InsertExecute_mut(c, ok) ==
    /\ pc[c] = "insert"
    /\ store' = IF ok THEN <<RowOf(cur[c].post)>> ELSE store
    /\ cur' = [cur EXCEPT ![c].db = IF ok THEN "ok" ELSE "err"]
    /\ pc' = [pc EXCEPT ![c] = "inserted"]
    /\ UNCHANGED <<sent, createLog, issued, nreq>>

\* The INSERT statement of Microblog::create_post completes: the row is
\* appended, or the statement fails and the table is as before.
InsertExecute(c, ok) ==
    /\ pc[c] = "insert"
    /\ store' = IF ok THEN Append(store, RowOf(cur[c].post)) ELSE store
    /\ cur' = [cur EXCEPT ![c].db = IF ok THEN "ok" ELSE "err"]
    /\ pc' = [pc EXCEPT ![c] = "inserted"]
    /\ UNCHANGED <<sent, createLog, issued, nreq>>

\* Microblog::create_post returns and create_post answers through
\* json_response.
CreatePostRespond(c) ==
    /\ pc[c] = "inserted"
    /\ LET h == cur[c]
           data == IF h.db = "ok" THEN Ok("object", <<h.post>>)
                   ELSE Err("Failed to insert post into database")
           r == json_response(data)
       IN  /\ sent' = Written(c, h, r)
           /\ createLog' = IF r.status = 200 THEN Append(createLog, r.posts[1])
                           ELSE createLog
    /\ pc' = [pc EXCEPT ![c] = "idle"]
    /\ cur' = [cur EXCEPT ![c] = NoHandling]
    /\ UNCHANGED <<store, issued, nreq>>

\* The SELECT statement of Microblog::get_posts completes: it returns the
\* rows of the table, or fails.
SelectExecute(c, ok) ==
    /\ pc[c] = "select"
    /\ cur' = [cur EXCEPT ![c].db = IF ok THEN "ok" ELSE "err",
                          ![c].rows = IF ok THEN store ELSE <<>>]
    /\ pc' = [pc EXCEPT ![c] = "selected"]
    /\ UNCHANGED <<store, sent, createLog, issued, nreq>>

\* Microblog::get_posts maps the rows to Posts and get_posts answers through
\* json_response.  expect() on an id that does not parse panics: the task
\* ends and the connection is dropped without a response.
GetPostsRespond(c) ==
    /\ pc[c] = "selected"
    /\ LET h == cur[c]
           bad == \E i \in 1..Len(h.rows) : ~RowId(h.rows[i]).ok
           data == IF h.db = "ok"
                   THEN Ok("array", [i \in 1..Len(h.rows) |-> RowToPost(h.rows[i])])
                   ELSE Err("Failed to fetch posts from database")
       IN  IF h.db = "ok" /\ bad
           THEN /\ pc' = [pc EXCEPT ![c] = "panicked"]
                /\ UNCHANGED sent
           ELSE /\ pc' = [pc EXCEPT ![c] = "idle"]
                /\ sent' = Written(c, h, json_response(data))
    /\ cur' = [cur EXCEPT ![c] = NoHandling]
    /\ UNCHANGED <<store, createLog, issued, nreq>>

Next ==
    \/ \E c \in Conns : \E r \in Requests : Route(c, r)
    \/ \E c \in Conns : \E readOk \in BOOLEAN : \E id \in 0..MaxUuid : CreatePost(c, readOk, id)
    \/ \E c \in Conns : \E ok \in BOOLEAN : InsertExecute(c, ok)
    \/ \E c \in Conns : CreatePostRespond(c)
    \/ \E c \in Conns : \E ok \in BOOLEAN : SelectExecute(c, ok)
    \/ \E c \in Conns : GetPostsRespond(c)

\* The service started on an existing database file.
Spec == Init /\ [][Next]_vars

\* The service started on an empty table.
SpecEmpty == InitEmpty /\ [][Next]_vars

\* ----------------------------------------------------------------- claims

\* What the requests of the claims are, stated on the wire form of the body.
ValidBodies == {BodyHello, BodyTest}

EmptyFieldBodies == {BodyEmptyTitle, BodyNoContent, BodyNumContent}

SubmittedTitle(b) == IF b = BodyHello THEN "Hello" ELSE "Test Post"

SubmittedContent(b) == IF b = BodyHello THEN "World" ELSE "This is a test post."

Answered == sent.conn \in Conns

IsCreate(r) == r.method = "POST" /\ r.path = "/posts"

IsList(r) == r.method = "GET" /\ r.path = "/posts"

Range(f) == {f[i] : i \in DOMAIN f}

\* C1: a POST /posts with non-empty title and content whose insert succeeds
\* is answered 200 with an object carrying the submitted title and content,
\* and no two successful create-post calls return the same id.
C1_CreateReturnsPost ==
    /\ (Answered /\ IsCreate(sent.req) /\ sent.req.body \in ValidBodies /\ sent.db = "ok")
          => /\ sent.status = 200
             /\ sent.kind = "object"
             /\ Len(sent.posts) = 1
             /\ sent.posts[1].title = SubmittedTitle(sent.req.body)
             /\ sent.posts[1].content = SubmittedContent(sent.req.body)
    /\ \A i, j \in 1..Len(createLog) : i # j => createLog[i].id # createLog[j].id

C1_Witness ==
    /\ Answered /\ IsCreate(sent.req) /\ sent.db = "ok"
    /\ Len(createLog) = 2
    /\ createLog[1].title # createLog[2].title

\* C2: a POST /posts whose parseable body has an empty, absent or non-string
\* title or content is answered 400 "Title and content cannot be empty"; no
\* insert is issued and the handler leaves the table as it was.
C2_Answer400 ==
    (Answered /\ IsCreate(sent.req) /\ sent.read = "ok" /\ sent.req.body \in EmptyFieldBodies)
       => /\ sent.status = 400
          /\ sent.kind = "text"
          /\ sent.text = "Title and content cannot be empty"
          /\ sent.db = "none"

C2_HandlerKeepsStore ==
    \A c \in Conns :
        (pc[c] = "collect" /\ pc'[c] = "idle" /\ cur[c].req.body \in EmptyFieldBodies)
           => store' = store /\ createLog' = createLog

C2_EmptyFieldsRejected == []C2_Answer400 /\ [][C2_HandlerKeepsStore]_vars

C2_Witness ==
    /\ Answered /\ IsCreate(sent.req) /\ sent.read = "ok"
    /\ sent.req.body = BodyNumContent
    /\ sent.status = 400
    /\ Len(store) > 0

\* C3: when a validated POST /posts meets a failing insert the client gets
\* 500 with body "Failed to insert post into database".
C3_InsertFailureBody ==
    (Answered /\ IsCreate(sent.req) /\ sent.db = "err")
       => /\ sent.status = 500
          /\ sent.text = "Failed to insert post into database"

\* C4: when the select of a GET /posts fails the client gets 500 with body
\* "Failed to fetch posts from database", a body sent for no other failure.
C4_FetchFailureBody ==
    (Answered /\ IsList(sent.req) /\ sent.db = "err")
       => /\ sent.status = 500
          /\ sent.text = "Failed to fetch posts from database"
          /\ sent.text # "Failed to read request body"

\* C5: no error ends the task of a connection; a GET /posts over a table
\* with a null or unparseable id is answered 500 and the task keeps serving.
C5_NoTaskPanics == \A c \in Conns : pc[c] # "panicked"

\* C6: a 200 list response holds every post that a create-post call had
\* returned with 200 before the list request arrived, with the same id, title
\* and content; and no step removes or alters a stored row.
C6_ListHoldsCreated ==
    (Answered /\ IsList(sent.req) /\ sent.status = 200)
       => \A i \in 1..sent.createdBefore : createLog[i] \in Range(sent.posts)

C6_RowsKept ==
    \A i \in 1..Len(store) : i <= Len(store') /\ store'[i] = store[i]

C6_CreatedPostsStay == []C6_ListHoldsCreated /\ [][C6_RowsKept]_vars

C6_Witness ==
    /\ Answered /\ IsList(sent.req) /\ sent.status = 200
    /\ sent.createdBefore >= 1
    /\ Len(sent.posts) >= 2

\* C7: a request that is neither POST /posts nor GET /posts is answered 404
\* "Not Found" whatever its body; its body is not read, no store statement
\* is issued and the table is unchanged.
C7_Answer404 ==
    (Answered /\ ~IsCreate(sent.req) /\ ~IsList(sent.req))
       => /\ sent.status = 404
          /\ sent.kind = "text"
          /\ sent.text = "Not Found"
          /\ sent.read = "none"
          /\ sent.db = "none"

C7_NoHandlerEntered ==
    /\ \A c \in Conns :
          (pc[c] = "idle" /\ pc'[c] # "idle")
             => IsCreate(cur'[c].req) \/ IsList(cur'[c].req)
    /\ nreq' # nreq => store' = store

C7_OtherRoutesNotFound == []C7_Answer404 /\ [][C7_NoHandlerEntered]_vars

C7_Witness ==
    /\ Answered /\ sent.req = Request("DELETE", "/posts", BodyHello)
    /\ sent.status = 404
    /\ Len(store) > 0

\* C8: started on an empty table, every stored post has a non-empty title and
\* a non-empty content, and no two stored posts share an id.
C8_StoredPostsValid ==
    /\ \A i \in 1..Len(store) : store[i].title # "" /\ store[i].content # ""
    /\ \A i, j \in 1..Len(store) : i # j => store[i].id # store[j].id

C8_Witness == Len(store) = 2 /\ \E c \in Conns : pc[c] = "inserted"

\* C9: a GET /posts whose select succeeds is answered 200 with an array of
\* one object per fetched row, the empty array on an empty table, and leaves
\* the table unchanged.
C9_ListStep ==
    \A c \in Conns :
        (pc[c] = "selected" /\ cur[c].db = "ok" /\ pc'[c] # "selected")
           => /\ sent'.conn = c
              /\ sent'.status = 200
              /\ sent'.kind = "array"
              /\ Len(sent'.posts) = Len(cur[c].rows)
              /\ store' = store

C9_ListReturnsRows == [][C9_ListStep]_vars

\* C10: with create-post and list-posts running on different connections,
\* every insert that succeeded has put exactly one row in the table, whatever
\* the order of the inserts and of the responses, and a list response holds
\* a post as it is stored or not at all.
C10_AtomicInserts ==
    /\ \A i \in 1..Len(createLog) :
          Cardinality({k \in 1..Len(store) :
              store[k] = [id |-> Some(createLog[i].id), title |-> createLog[i].title,
                          content |-> createLog[i].content]}) = 1
    /\ Len(store) = Len(createLog)
                      + Cardinality({c \in Conns : pc[c] = "inserted" /\ cur[c].db = "ok"})
    /\ (Answered /\ IsList(sent.req) /\ sent.status = 200)
          => \A p \in Range(sent.posts) :
                \E k \in 1..Len(store) :
                    store[k] = [id |-> Some(p.id), title |-> p.title, content |-> p.content]

\* Two inserts committed in one order and answered in the other.
C10_Witness ==
    /\ Len(createLog) = 2
    /\ store[1].id = Some(createLog[2].id)

\* A list that ran between the commit of an insert and its response.
C10_ListWitness ==
    /\ Answered /\ IsList(sent.req) /\ sent.status = 200
    /\ Len(sent.posts) = 1
    /\ Len(createLog) = 0

====
